---- MODULE Spec2Model ----
(***************************************************************************)
(* Model of the exchange-rate provider of the PPP price converter          *)
(* (frontend/src/services/currencyService.ts): the cached fetch with its   *)
(* fallback chain, and the two pure conversions built on a snapshot.       *)
(*                                                                         *)
(* Numbers are exact rationals <<n, d>> in lowest terms with d >= 0; the   *)
(* three values with d = 0 stand for the IEEE results of a division by     *)
(* zero: <<1,0>> Infinity, <<-1,0>> -Infinity, <<0,0>> NaN.                 *)
(* An optional value is a sequence of length 0 (undefined / null) or 1.    *)
(* For a string member of a JSON payload the empty string stands for every *)
(* falsy value (absent, null, "").                                         *)
(***************************************************************************)
EXTENDS Integers, Sequences, FiniteSets, TLC

VARIABLES
    now,          \* Date.now(), in milliseconds
    ticks,        \* number of clock advances so far (bounds the run)
    storage,      \* localStorage[CACHE_KEY]: Null or <<text>>
    storageFault, \* which localStorage accesses throw: "none", "read", "write"
    call,         \* per invocation of fetchExchangeRates: position and locals
    conv,         \* one application of convertCurrency / getExchangeRate
    parse,        \* one application of parseCSVLine
    load,         \* one application of loadPPPData / getCountriesFromPPPData
    rev,          \* one application of getCurrencyToCountryCode
    ui            \* the refs of the PriceConverter component

loaderVars == <<parse, load, rev, ui>>

vars == <<now, ticks, storage, storageFault, call, conv, parse, load, rev, ui>>

(***************************************************************************)
(* Bounds of the model.                                                    *)
(***************************************************************************)
MaxNum == 2       \* rates have numerators 0..MaxNum
MaxDen == 2       \* and denominators 1..MaxDen
MaxAmt == 2       \* amounts are the integers -MaxAmt..MaxAmt
MaxTicks == 2     \* the clock advances at most MaxTicks times
NumCalls == 2     \* concurrent invocations of fetchExchangeRates
MaxLineLen == 4   \* characters of a line given to parseCSVLine
MaxLines == 3     \* lines of the dataset text
MaxEntries == 3   \* entries of a primary country-to-currency mapping

(***************************************************************************)
(* Optional values.                                                        *)
(***************************************************************************)
Null == <<>>
Some(x) == <<x>>
Undefined == <<>>

(***************************************************************************)
(* Exact arithmetic on JavaScript numbers.                                 *)
(***************************************************************************)
Abs(n) == IF n < 0 THEN -n ELSE n

Sgn(n) == IF n < 0 THEN -1 ELSE IF n = 0 THEN 0 ELSE 1

RECURSIVE GCD(_, _)
GCD(a, b) == IF b = 0 THEN a ELSE GCD(b, a % b)

Norm(q) ==
    IF q[2] = 0 THEN <<Sgn(q[1]), 0>>
    ELSE LET g == GCD(Abs(q[1]), Abs(q[2]))
             s == Sgn(q[2])
         IN  <<(s * q[1]) \div g, (s * q[2]) \div g>>

Num(n) == <<n, 1>>

RMul(a, b) == Norm(<<a[1] * b[1], a[2] * b[2]>>)

RDiv(a, b) == Norm(<<a[1] * b[2], a[2] * b[1]>>)

\* !x for a value read from a rates table: undefined, 0 and NaN are falsy
Falsy(x) == x = Undefined \/ x[1] = 0

(***************************************************************************)
(* Snapshots (interface ExchangeRates).                                    *)
(***************************************************************************)
Currencies == {"USD", "EUR", "GBP"}

Codes == Currencies \cup {"XXX"}

\* rates.rates[c]: a property read, undefined when the key is absent
Lookup(rates, c) == IF c \in DOMAIN rates THEN rates[c] ELSE Undefined

EmptyRates == [c \in {} |-> Num(0)]

(***************************************************************************)
(* convertCurrency and getExchangeRate.                                    *)
(***************************************************************************)
\* mutant: the two base branches exchanged
convertCurrency_SwappedBase(amount, fromCurrency, toCurrency, rates) ==
    IF fromCurrency = toCurrency THEN amount
    ELSE LET fromRate == Lookup(rates.rates, fromCurrency)
             toRate == Lookup(rates.rates, toCurrency)
         IN  IF Falsy(fromRate) \/ Falsy(toRate) THEN amount
             ELSE IF rates.base = toCurrency THEN RMul(amount, toRate)
             ELSE IF rates.base = fromCurrency THEN RDiv(amount, fromRate)
             ELSE RMul(RDiv(amount, fromRate), toRate)

\* mutant: a missing rate yields 0 instead of the amount
convertCurrency_MissingZero(amount, fromCurrency, toCurrency, rates) ==
    IF fromCurrency = toCurrency THEN amount
    ELSE LET fromRate == Lookup(rates.rates, fromCurrency)
             toRate == Lookup(rates.rates, toCurrency)
         IN  IF Falsy(fromRate) \/ Falsy(toRate) THEN Num(0)
             ELSE IF rates.base = fromCurrency THEN RMul(amount, toRate)
             ELSE IF rates.base = toCurrency THEN RDiv(amount, fromRate)
             ELSE RMul(RDiv(amount, fromRate), toRate)

\* mutant: no early return for equal currencies
convertCurrency_NoIdentity(amount, fromCurrency, toCurrency, rates) ==
    LET fromRate == Lookup(rates.rates, fromCurrency)
        toRate == Lookup(rates.rates, toCurrency)
    IN  IF Falsy(fromRate) \/ Falsy(toRate) THEN amount
        ELSE IF rates.base = fromCurrency THEN RMul(amount, toRate)
        ELSE IF rates.base = toCurrency THEN RDiv(amount, fromRate)
        ELSE RMul(RDiv(amount, fromRate), toRate)

\* mutant: the base branches test the base before the missing rates
convertCurrency_BaseFirst(amount, fromCurrency, toCurrency, rates) ==
    IF fromCurrency = toCurrency THEN amount
    ELSE LET fromRate == Lookup(rates.rates, fromCurrency)
             toRate == Lookup(rates.rates, toCurrency)
         IN  IF rates.base = fromCurrency /\ ~Falsy(toRate) THEN RMul(amount, toRate)
             ELSE IF rates.base = toCurrency /\ ~Falsy(fromRate)
             THEN RDiv(amount, fromRate)
             ELSE IF Falsy(fromRate) \/ Falsy(toRate) THEN amount
             ELSE RMul(RDiv(amount, fromRate), toRate)

convertCurrency(amount, fromCurrency, toCurrency, rates) ==
    IF fromCurrency = toCurrency THEN amount
    ELSE LET fromRate == Lookup(rates.rates, fromCurrency)
             toRate == Lookup(rates.rates, toCurrency)
         IN  IF Falsy(fromRate) \/ Falsy(toRate) THEN amount
             ELSE IF rates.base = fromCurrency THEN RMul(amount, toRate)
             ELSE IF rates.base = toCurrency THEN RDiv(amount, fromRate)
             ELSE RMul(RDiv(amount, fromRate), toRate)

\* mutant: towards the base the rate is not inverted
getExchangeRate_ToBaseDirect(fromCurrency, toCurrency, rates) ==
    IF fromCurrency = toCurrency THEN Num(1)
    ELSE LET fromRate == Lookup(rates.rates, fromCurrency)
             toRate == Lookup(rates.rates, toCurrency)
         IN  IF Falsy(fromRate) \/ Falsy(toRate) THEN Num(1)
             ELSE IF rates.base = fromCurrency THEN toRate
             ELSE IF rates.base = toCurrency THEN fromRate
             ELSE RDiv(toRate, fromRate)

\* mutant: the cross rate inverted
getExchangeRate_Inverted(fromCurrency, toCurrency, rates) ==
    IF fromCurrency = toCurrency THEN Num(1)
    ELSE LET fromRate == Lookup(rates.rates, fromCurrency)
             toRate == Lookup(rates.rates, toCurrency)
         IN  IF Falsy(fromRate) \/ Falsy(toRate) THEN Num(1)
             ELSE IF rates.base = fromCurrency THEN toRate
             ELSE IF rates.base = toCurrency THEN RDiv(Num(1), fromRate)
             ELSE RDiv(fromRate, toRate)

getExchangeRate(fromCurrency, toCurrency, rates) ==
    IF fromCurrency = toCurrency THEN Num(1)
    ELSE LET fromRate == Lookup(rates.rates, fromCurrency)
             toRate == Lookup(rates.rates, toCurrency)
         IN  IF Falsy(fromRate) \/ Falsy(toRate) THEN Num(1)
             ELSE IF rates.base = fromCurrency THEN toRate
             ELSE IF rates.base = toCurrency THEN RDiv(Num(1), fromRate)
             ELSE RDiv(toRate, fromRate)

(***************************************************************************)
(* The exchange-rate provider: constants, cache access, snapshot building. *)
(***************************************************************************)
CACHE_DURATION == 3600000

MsPerDay == 86400000

\* the instant the module is loaded; FALLBACK_RATES.timestamp is taken then
LoadTime == CACHE_DURATION

\* the static table, restricted to the currencies of the model
FALLBACK_RATES ==
    [base |-> "USD",
     rates |-> [c \in Currencies |->
                  IF c = "USD" THEN Num(1)
                  ELSE IF c = "GBP" THEN Norm(<<79, 100>>)
                  ELSE Norm(<<92, 100>>)],
     timestamp |-> LoadTime,
     lastUpdated |-> "Static fallback rates"]

\* new Date().toISOString().split('T')[0]: the UTC day of the instant t
ISODate(t) == ToString(t \div MsPerDay)

\* JSON.stringify of a snapshot: a well-formed text carrying its members
JSONstringify(rates) == [syntax |-> "ok", members |-> rates]

\* a stored text that JSON.parse rejects
CorruptText == [syntax |-> "bad", members |-> FALLBACK_RATES]

\* how an evaluation completes: normally with a value, or by throwing
Normal(v) == [threw |-> FALSE, value |-> v]

Throw(v) == [threw |-> TRUE, value |-> v]

\* JSON.parse throws a SyntaxError on a text that is not JSON
JSONparse(text) ==
    IF text.syntax = "ok" THEN Normal(Some(text.members)) ELSE Throw(Null)

\* localStorage.getItem(CACHE_KEY)
getItem == IF storageFault = "read" THEN Throw(Null) ELSE Normal(storage)

\* localStorage.setItem(CACHE_KEY, text); the value is the storage afterwards
setItem(text) ==
    IF storageFault = "write" THEN Throw(storage) ELSE Normal(Some(text))

\* mutant: no try/catch around the read
getCachedRates_NoCatch ==
    LET cached == getItem
    IN  IF cached.threw THEN Throw(Null)
        ELSE IF cached.value = Null THEN Normal(Null)
        ELSE JSONparse(cached.value[1])

\* try { getItem; if (cached) return JSON.parse(cached) } catch {} return null
getCachedRates ==
    LET cached == getItem
    IN  IF cached.threw THEN Normal(Null)
        ELSE IF cached.value = Null THEN Normal(Null)
        ELSE LET parsed == JSONparse(cached.value[1])
             IN  IF parsed.threw THEN Normal(Null) ELSE parsed

\* mutant: the new snapshot is merged into the cached one
cacheRates_Merge(rates) ==
    LET prior == getCachedRates
        merged == IF prior.value # Null
                  THEN [rates EXCEPT !.lastUpdated = prior.value[1].lastUpdated]
                  ELSE rates
        written == setItem(JSONstringify(merged))
    IN  Normal(written.value)

\* try { setItem(JSON.stringify(rates)) } catch {}
cacheRates(rates) ==
    LET written == setItem(JSONstringify(rates))
    IN  Normal(written.value)

\* mutant: a window of two hours
IsFresh_Doubled(cached, t) == t - cached.timestamp < 2 * CACHE_DURATION

\* mutant: the window's end included
IsFresh_Inclusive(cached, t) == t - cached.timestamp <= CACHE_DURATION

\* Date.now() - cached.timestamp < CACHE_DURATION
IsFresh(cached, t) == t - cached.timestamp < CACHE_DURATION

(***************************************************************************)
(* Response bodies of the rates endpoint.                                  *)
(***************************************************************************)
ApiRates == [c \in Currencies |-> IF c = "USD" THEN Num(1) ELSE Norm(<<1, 2>>)]

ApiDate == "2025-01-15"

Body(kind, base, rates, date) ==
    [kind |-> kind, base |-> base, rates |-> rates, date |-> date]

Bodies ==
    { Body("unparsable", "", Null, ""),           \* not JSON
      Body("null", "", Null, ""),                 \* the JSON value null
      Body("object", "EUR", Some(ApiRates), ApiDate),
      Body("object", "", Null, "")                \* the empty object {}
    }

\* mutant: no default for a payload without a date
BuildSnapshot_NoDateDefault(data, t) ==
    [base |-> IF data.base = "" THEN "USD" ELSE data.base,
     rates |-> IF data.rates = Null THEN EmptyRates ELSE data.rates[1],
     timestamp |-> t,
     lastUpdated |-> data.date]

\* the snapshot built from a parsed payload at instant t
BuildSnapshot(data, t) ==
    [base |-> IF data.base = "" THEN "USD" ELSE data.base,
     rates |-> IF data.rates = Null THEN EmptyRates ELSE data.rates[1],
     timestamp |-> t,
     lastUpdated |-> IF data.date = "" THEN ISODate(t) ELSE data.date]

(***************************************************************************)
(* fetchExchangeRates, one action per stretch between two awaits.          *)
(***************************************************************************)
Calls == 1..NumCalls

\* pc: "idle", "fetch" (awaiting fetch), "json" (awaiting response.json()),
\* "done" (resolved with result) or "rejected"; net: a request was issued;
\* body: the response body received; log, error: the console messages
Idle ==
    [pc |-> "idle", result |-> Null, net |-> FALSE, body |-> Null,
     log |-> "", error |-> ""]

Returned(c, snapshot, msg) ==
    [call EXCEPT ![c].pc = "done", ![c].result = Some(snapshot), ![c].log = msg]

\* mutant: the catch block goes straight to the static table
Catch_NoStale(c, err, body) ==
    /\ call' = [call EXCEPT ![c].error = err, ![c].body = body, ![c].pc = "done",
                  ![c].result = Some(FALLBACK_RATES),
                  ![c].log = "Using fallback static rates"]
    /\ UNCHANGED storage

\* mutant: the catch block rethrows when there is no cache
Catch_Rethrow(c, err, body) ==
    LET cached == getCachedRates
        after == [call EXCEPT ![c].error = err, ![c].body = body]
    IN  /\ call' = IF cached.threw \/ cached.value = Null
                   THEN [after EXCEPT ![c].pc = "rejected"]
                   ELSE [after EXCEPT ![c].pc = "done", ![c].result = cached.value,
                           ![c].log = "Using expired cached rates due to API failure"]
        /\ UNCHANGED storage

\* mutant: the static table is written to the cache when it is returned
Catch_PersistFallback(c, err, body) ==
    LET cached == getCachedRates
        after == [call EXCEPT ![c].error = err, ![c].body = body]
    IN  IF cached.threw
        THEN call' = [after EXCEPT ![c].pc = "rejected"] /\ UNCHANGED storage
        ELSE IF cached.value # Null
        THEN /\ call' = [after EXCEPT ![c].pc = "done", ![c].result = cached.value,
                           ![c].log = "Using expired cached rates due to API failure"]
             /\ UNCHANGED storage
        ELSE /\ call' = [after EXCEPT ![c].pc = "done",
                           ![c].result = Some(FALLBACK_RATES),
                           ![c].log = "Using fallback static rates"]
             /\ storage' = Some(JSONstringify(FALLBACK_RATES))

\* the catch block: the stale cache if there is one, else the static table
Catch(c, err, body) ==
    LET cached == getCachedRates
        after == [call EXCEPT ![c].error = err, ![c].body = body]
    IN  /\ call' = IF cached.threw
                   THEN [after EXCEPT ![c].pc = "rejected"]
                   ELSE IF cached.value # Null
                   THEN [after EXCEPT ![c].pc = "done", ![c].result = cached.value,
                           ![c].log = "Using expired cached rates due to API failure"]
                   ELSE [after EXCEPT ![c].pc = "done",
                           ![c].result = Some(FALLBACK_RATES),
                           ![c].log = "Using fallback static rates"]
        /\ UNCHANGED storage

\* the call up to `await fetch(...)`
Start(c) ==
    /\ call[c].pc = "idle"
    /\ LET cached == getCachedRates
       IN  IF cached.threw THEN Catch(c, "cache error", Null)
           ELSE IF cached.value # Null /\ IsFresh(cached.value[1], now)
           THEN /\ call' = Returned(c, cached.value[1], "Using cached exchange rates")
                /\ UNCHANGED storage
           ELSE /\ call' = [call EXCEPT ![c].pc = "fetch", ![c].net = TRUE]
                /\ UNCHANGED storage
    /\ UNCHANGED <<now, ticks, storageFault, conv, loaderVars>>

\* fetch settles: rejected, a non-success status, or a response
FetchSettles(c, outcome) ==
    /\ call[c].pc = "fetch"
    /\ IF outcome = "ok"
       THEN call' = [call EXCEPT ![c].pc = "json"] /\ UNCHANGED storage
       ELSE Catch(c, outcome, Null)
    /\ UNCHANGED <<now, ticks, storageFault, conv, loaderVars>>

\* response.json() settles with the body `data`
JsonSettles(c, data) ==
    /\ call[c].pc = "json"
    /\ IF data.kind = "unparsable" THEN Catch(c, "SyntaxError", Some(data))
       ELSE IF data.kind = "null" THEN Catch(c, "TypeError", Some(data))
       ELSE LET exchangeRates == BuildSnapshot(data, now)
                cached == cacheRates(exchangeRates)
            IN  IF cached.threw THEN Catch(c, "cache error", Some(data))
                ELSE /\ storage' = cached.value
                     /\ call' = [Returned(c, exchangeRates,
                                          "Fetched fresh exchange rates from API")
                                   EXCEPT ![c].body = Some(data)]
    /\ UNCHANGED <<now, ticks, storageFault, conv, loaderVars>>

\* the caller takes the result; the slot is free for the next invocation
Return(c) ==
    /\ call[c].pc \in {"done", "rejected"}
    /\ call' = [call EXCEPT ![c] = Idle]
    /\ UNCHANGED <<now, ticks, storage, storageFault, conv, loaderVars>>

Tick(d) ==
    /\ ticks < MaxTicks
    /\ now' = now + d
    /\ ticks' = ticks + 1
    /\ UNCHANGED <<storage, storageFault, call, conv, loaderVars>>

Outcomes == {"ok", "network error", "http error"}

Steps == {1, CACHE_DURATION - 1}

\* a snapshot left in the cache by an earlier session
Stored(t) == Some(JSONstringify([base |-> "USD", rates |-> ApiRates,
                                 timestamp |-> t, lastUpdated |-> ApiDate]))

InitStorage ==
    {Null, Some(CorruptText), Stored(LoadTime - CACHE_DURATION),
     Stored(LoadTime - CACHE_DURATION + 1)}

\* the other operations, before they are applied
ParseIdle == [op |-> "none", line |-> <<>>, out |-> <<>>]

LoadIdle == [op |-> "none", text |-> <<>>, response |-> Null, out |-> Null]

RevIdle == [op |-> "none", entries |-> <<>>, out |-> <<>>]

\* the refs of the component as they are declared
UiIdle ==
    [isLoading |-> TRUE, loadError |-> Null, countries |-> <<>>,
     pppFactors |-> EmptyRates, price |-> Some(Num(1)),
     originCountryCode |-> "USA", targetCountryCode |-> "GBR"]

ConvIdle ==
    [op |-> "none", amount |-> Num(0), from |-> "USD", to |-> "USD",
     rates |-> FALLBACK_RATES, out |-> Null]

Init ==
    /\ now = LoadTime
    /\ ticks = 0
    /\ storage \in InitStorage
    /\ storageFault \in {"none", "read", "write"}
    /\ call = [c \in Calls |-> Idle]
    /\ conv = ConvIdle
    /\ parse = ParseIdle
    /\ load = LoadIdle
    /\ rev = RevIdle
    /\ ui = UiIdle

Next ==
    \/ \E c \in Calls : Start(c)
    \/ \E c \in Calls, o \in Outcomes : FetchSettles(c, o)
    \/ \E c \in Calls, data \in Bodies : JsonSettles(c, data)
    \/ \E c \in Calls : Return(c)
    \/ \E d \in Steps : Tick(d)

Spec == Init /\ [][Next]_vars

(***************************************************************************)
(* The pure conversions, applied to every input of a bounded domain.       *)
(***************************************************************************)
\* x || 1.0
OrOne(x) == IF Falsy(x) THEN Num(1) ELSE x

\* lines 120-132 of the component: the exchange amount of convertedPrice, on a
\* table of rates relative to USD
exchangeConverted(price, originCurrency, targetCurrency, table) ==
    LET originExchangeRate == OrOne(Lookup(table, originCurrency))
        targetExchangeRate == OrOne(Lookup(table, targetCurrency))
        priceInUSD == RDiv(price, originExchangeRate)
    IN  RMul(priceInUSD, targetExchangeRate)

RateVals == {Norm(<<n, d>>) : n \in 0..MaxNum, d \in 1..MaxDen}

Amounts == {Num(n) : n \in -MaxAmt..MaxAmt}

RateTables == UNION {[S -> RateVals] : S \in SUBSET Currencies}

Snapshots ==
    [base : {"USD", "EUR"}, rates : RateTables,
     timestamp : {LoadTime}, lastUpdated : {ApiDate}]

ApplyConvert ==
    /\ conv.op = "none"
    /\ conv' = [conv EXCEPT !.op = "convertCurrency",
                  !.out = Some(convertCurrency(conv.amount, conv.from,
                                               conv.to, conv.rates))]
    /\ UNCHANGED <<now, ticks, storage, storageFault, call, loaderVars>>

ApplyExchange ==
    /\ conv.op = "none"
    /\ conv' = [conv EXCEPT !.op = "exchangeConverted",
                  !.out = Some(exchangeConverted(conv.amount, conv.from, conv.to,
                                                 conv.rates.rates))]
    /\ UNCHANGED <<now, ticks, storage, storageFault, call, loaderVars>>

ApplyGetRate ==
    /\ conv.op = "none"
    /\ conv' = [conv EXCEPT !.op = "getExchangeRate",
                  !.out = Some(getExchangeRate(conv.from, conv.to, conv.rates))]
    /\ UNCHANGED <<now, ticks, storage, storageFault, call, loaderVars>>

InitConv ==
    /\ now = LoadTime
    /\ ticks = 0
    /\ storage = Null
    /\ storageFault = "none"
    /\ call = [c \in Calls |-> Idle]
    /\ conv \in [op : {"none"}, amount : Amounts, from : Codes, to : Codes,
                 rates : Snapshots, out : {Null}]
    /\ parse = ParseIdle
    /\ load = LoadIdle
    /\ rev = RevIdle
    /\ ui = UiIdle

NextConv == ApplyConvert \/ ApplyGetRate \/ ApplyExchange

SpecConv == InitConv /\ [][NextConv]_vars

(***************************************************************************)
(* parseCSVLine (utils/pppParser).  A line is a sequence of characters; a  *)
(* run of ordinary characters may be written as one element.  A field is   *)
(* the string of its characters.                                           *)
(***************************************************************************)
Quote == "\""

Comma == ","

\* mutant: every comma separates, quoted or not
RECURSIVE parseCSVLineFrom_NoQuotes(_, _, _, _, _)
parseCSVLineFrom_NoQuotes(line, i, result, current, inQuotes) ==
    IF i > Len(line) THEN Append(result, current)
    ELSE LET char == line[i]
         IN  IF char = Quote
             THEN parseCSVLineFrom_NoQuotes(line, i + 1, result, current, ~inQuotes)
             ELSE IF char = Comma
             THEN parseCSVLineFrom_NoQuotes(line, i + 1, Append(result, current),
                                            "", inQuotes)
             ELSE parseCSVLineFrom_NoQuotes(line, i + 1, result, current \o char,
                                            inQuotes)

\* the loop of parseCSVLine from index i on (1-based)
RECURSIVE parseCSVLineFrom(_, _, _, _, _)
parseCSVLineFrom(line, i, result, current, inQuotes) ==
    IF i > Len(line) THEN Append(result, current)
    ELSE LET char == line[i]
         IN  IF char = Quote
             THEN parseCSVLineFrom(line, i + 1, result, current, ~inQuotes)
             ELSE IF char = Comma /\ ~inQuotes
             THEN parseCSVLineFrom(line, i + 1, Append(result, current), "", inQuotes)
             ELSE parseCSVLineFrom(line, i + 1, result, current \o char, inQuotes)

parseCSVLine(line) == parseCSVLineFrom(line, 1, <<>>, "", FALSE)

Alphabet == {Quote, Comma, "a", "b"}

LinesUpTo(n) == UNION {[1..k -> Alphabet] : k \in 0..n}

ApplyParse ==
    /\ parse.op = "none"
    /\ parse' = [parse EXCEPT !.op = "parseCSVLine", !.out = parseCSVLine(parse.line)]
    /\ UNCHANGED <<now, ticks, storage, storageFault, call, conv, load, rev, ui>>

InitCSV ==
    /\ now = LoadTime
    /\ ticks = 0
    /\ storage = Null
    /\ storageFault = "none"
    /\ call = [c \in Calls |-> Idle]
    /\ conv = ConvIdle
    /\ parse \in [op : {"none"}, line : LinesUpTo(MaxLineLen), out : {<<>>}]
    /\ load = LoadIdle
    /\ rev = RevIdle
    /\ ui = UiIdle

NextCSV == ApplyParse

SpecCSV == InitCSV /\ [][NextCSV]_vars

(***************************************************************************)
(* loadPPPData (utils/pppParser).  A text is the sequence of its lines, a  *)
(* Map the sequence of its entries in insertion order.                     *)
(***************************************************************************)
EmptyLine == <<>>

HeaderFull == <<"Country Name", Comma, "Country Code", Comma, "2023", Comma, "2024">>

HeaderNoYear == <<"Country Name", Comma, "Country Code", Comma, "2023">>

\* the lines a dataset text of the model is made of
LineMenu ==
    { HeaderFull, HeaderNoYear, EmptyLine,
      <<"United States", Comma, "USA", Comma, "1", Comma, "1">>,
      <<"United States", Comma, "USA", Comma, "1", Comma, "-2">>,
      <<"Germany", Comma, "DEU", Comma, "0.8", Comma, "0.7">>,
      <<"Germany", Comma, "DEU", Comma, "0.8", Comma, "n/a">>,  \* not a number
      <<"Germany", Comma, "DEU", Comma, "0.8">>,                \* too short
      <<"France", Comma, "FRA", Comma, "0.7", Comma, "0.8">>,
      <<Quote, "France", Comma, " Republic of", Quote, Comma, "FRA", Comma,
        "1", Comma, "0">>,
      <<"France", Comma, "FRA", Comma, "0.7", Comma>>,          \* no value
      <<"Brazil", Comma, "BRA", Comma, "2", Comma, "2.5">>,
      <<"Nowhere", Comma, Comma, "1", Comma, "1">>,             \* no code
      <<Comma, "USA", Comma, "1", Comma, "2">> }                \* no name

Texts == UNION {[1..k -> LineMenu] : k \in 0..MaxLines}

\* bodies of a not-found response
ErrorBodies ==
    { <<>>, << <<"Not Found">> >>,
      << <<"<!DOCTYPE html>">>, <<"<html>">>, <<"404">> >> }

\* what fetch('/ppp_2025.csv') can deliver when the server holds `text`
Responses(text) ==
    {[status |-> "rejected", text |-> <<>>], [status |-> "200", text |-> text]}
        \cup {[status |-> "404", text |-> b] : b \in ErrorBodies}

\* text.trim(): blank lines at either end go
RECURSIVE TrimLines(_)
TrimLines(text) ==
    IF text = <<>> THEN <<>>
    ELSE IF Head(text) = EmptyLine THEN TrimLines(Tail(text))
    ELSE IF text[Len(text)] = EmptyLine THEN TrimLines(SubSeq(text, 1, Len(text) - 1))
    ELSE text

\* text.trim().split('\n'): the empty string splits into one empty line
SplitLines(text) ==
    LET t == TrimLines(text) IN IF t = <<>> THEN <<EmptyLine>> ELSE t

\* headers.indexOf(name), 0-based, -1 when absent
IndexOf(headers, name) ==
    IF \E k \in 1..Len(headers) : headers[k] = name
    THEN (CHOOSE k \in 1..Len(headers) :
             headers[k] = name /\ \A j \in 1..(k - 1) : headers[j] # name) - 1
    ELSE -1

NaN == <<0, 0>>

\* parseFloat on the field values of the model; anything else in the model
\* starts with no digit and gives NaN
parseFloat(str) ==
    CASE str = "0" -> Num(0)
      [] str = "1" -> Num(1)
      [] str = "2" -> Num(2)
      [] str = "-2" -> Num(-2)
      [] str = "0.7" -> Norm(<<7, 10>>)
      [] str = "0.8" -> Norm(<<8, 10>>)
      [] str = "2.5" -> Norm(<<25, 10>>)
      [] str = "2023" -> Num(2023)
      [] str = "2024" -> Num(2024)
      [] OTHER -> NaN

isNaN(x) == x = NaN

MapHas(map, key) == \E k \in 1..Len(map) : map[k].countryCode = key

MapGet(map, key) == map[CHOOSE k \in 1..Len(map) : map[k].countryCode = key]

\* mutant: an entry already there is kept
MapSet_FirstWins(map, key, value) ==
    IF MapHas(map, key) THEN map ELSE Append(map, value)

\* Map.prototype.set: a new key goes last, a known key keeps its place
MapSet(map, key, value) ==
    IF MapHas(map, key)
    THEN [k \in 1..Len(map) |-> IF map[k].countryCode = key THEN value ELSE map[k]]
    ELSE Append(map, value)

\* mutant: a value that is not a number is stored as well
RECURSIVE LoadRows_KeepNaN(_, _, _, _)
LoadRows_KeepNaN(lines, i, yearIndex, dataMap) ==
    IF i > Len(lines) THEN dataMap
    ELSE LET line == lines[i]
             values == parseCSVLine(line)
         IN  IF line = EmptyLine THEN LoadRows_KeepNaN(lines, i + 1, yearIndex, dataMap)
             ELSE IF Len(values) < yearIndex + 1
             THEN LoadRows_KeepNaN(lines, i + 1, yearIndex, dataMap)
             ELSE IF values[1] = "" \/ values[2] = "" \/ values[yearIndex + 1] = ""
             THEN LoadRows_KeepNaN(lines, i + 1, yearIndex, dataMap)
             ELSE LoadRows_KeepNaN(lines, i + 1, yearIndex,
                     MapSet(dataMap, values[2],
                            [countryName |-> values[1], countryCode |-> values[2],
                             pppFactor |-> parseFloat(values[yearIndex + 1]),
                             year |-> 2024]))

\* the loop over the data rows, from line i on (1-based; line 1 is the header)
RECURSIVE LoadRows(_, _, _, _)
LoadRows(lines, i, yearIndex, dataMap) ==
    IF i > Len(lines) THEN dataMap
    ELSE LET line == lines[i]
             values == parseCSVLine(line)
         IN  IF line = EmptyLine THEN LoadRows(lines, i + 1, yearIndex, dataMap)
             ELSE IF Len(values) < yearIndex + 1
             THEN LoadRows(lines, i + 1, yearIndex, dataMap)
             ELSE IF values[1] = "" \/ values[2] = "" \/ values[yearIndex + 1] = ""
             THEN LoadRows(lines, i + 1, yearIndex, dataMap)
             ELSE IF isNaN(parseFloat(values[yearIndex + 1]))
             THEN LoadRows(lines, i + 1, yearIndex, dataMap)
             ELSE LoadRows(lines, i + 1, yearIndex,
                     MapSet(dataMap, values[2],
                            [countryName |-> values[1], countryCode |-> values[2],
                             pppFactor |-> parseFloat(values[yearIndex + 1]),
                             year |-> 2024]))

\* mutant: a header without the year column is not an error
loadPPPData_NoYearCheck(response) ==
    IF response.status = "rejected" THEN Throw(<<>>)
    ELSE LET lines == SplitLines(response.text)
         IN  IF Len(lines) < 2 THEN Throw(<<>>)
             ELSE IF lines[1] = EmptyLine THEN Throw(<<>>)
             ELSE LET yearIndex == IndexOf(parseCSVLine(lines[1]), "2024")
                  IN  IF yearIndex = -1 THEN Normal(<<>>)
                      ELSE Normal(LoadRows(lines, 2, yearIndex, <<>>))

\* loadPPPData on what fetch delivered; the status of the response is not read
loadPPPData(response) ==
    IF response.status = "rejected" THEN Throw(<<>>)
    ELSE LET lines == SplitLines(response.text)
         IN  IF Len(lines) < 2 THEN Throw(<<>>)
             ELSE IF lines[1] = EmptyLine THEN Throw(<<>>)
             ELSE LET yearIndex == IndexOf(parseCSVLine(lines[1]), "2024")
                  IN  IF yearIndex = -1 THEN Throw(<<>>)
                      ELSE Normal(LoadRows(lines, 2, yearIndex, <<>>))

\* countryCodeToCurrencyCode, as the sequence of its entries in source order
countryCodeToCurrencyCode ==
    << <<"USA", "USD">>, <<"GBR", "GBP">>, <<"JPN", "JPY">>, <<"CAN", "CAD">>,
       <<"AUS", "AUD">>, <<"IND", "INR">>, <<"CHN", "CNY">>,
       <<"AUT", "EUR">>, <<"BEL", "EUR">>, <<"CYP", "EUR">>, <<"EST", "EUR">>,
       <<"FIN", "EUR">>, <<"FRA", "EUR">>, <<"DEU", "EUR">>, <<"GRC", "EUR">>,
       <<"IRL", "EUR">>, <<"ITA", "EUR">>, <<"LVA", "EUR">>, <<"LTU", "EUR">>,
       <<"LUX", "EUR">>, <<"MLT", "EUR">>, <<"NLD", "EUR">>, <<"PRT", "EUR">>,
       <<"SVK", "EUR">>, <<"SVN", "EUR">>, <<"ESP", "EUR">> >>

\* entries[key] of a table given by its entries; "" stands for undefined
EntryOf(entries, key) ==
    IF \E k \in 1..Len(entries) : entries[k][1] = key
    THEN (entries[CHOOSE k \in 1..Len(entries) : entries[k][1] = key])[2]
    ELSE ""

\* the country names of the model in the order localeCompare gives them
LocaleOrder ==
    <<"Brazil", "France", "France, Republic of", "Germany", "Nowhere",
      "United Kingdom", "United States">>

LocaleRank(name) ==
    IF \E k \in 1..Len(LocaleOrder) : LocaleOrder[k] = name
    THEN CHOOSE k \in 1..Len(LocaleOrder) : LocaleOrder[k] = name
    ELSE 0

\* a.localeCompare(b): negative, zero or positive
localeCompare(a, b) == Sgn(LocaleRank(a) - LocaleRank(b))

\* Array.prototype.sort with (a, b) => a.name.localeCompare(b.name): stable
RECURSIVE InsertByName(_, _)
InsertByName(sorted, c) ==
    IF sorted = <<>> THEN <<c>>
    ELSE IF localeCompare(sorted[Len(sorted)].name, c.name) <= 0
    THEN Append(sorted, c)
    ELSE Append(InsertByName(SubSeq(sorted, 1, Len(sorted) - 1), c),
                sorted[Len(sorted)])

\* mutant: the catalog stays in the order of the mapping
SortByName_Unsorted(countries) == countries

RECURSIVE SortByName(_)
SortByName(countries) ==
    IF countries = <<>> THEN <<>>
    ELSE InsertByName(SortByName(SubSeq(countries, 1, Len(countries) - 1)),
                      countries[Len(countries)])

\* mutant: a country without a currency is listed under a placeholder
RECURSIVE CollectCountries_Placeholder(_, _)
CollectCountries_Placeholder(pppData, k) ==
    IF k > Len(pppData) THEN <<>>
    ELSE LET currencyCode == EntryOf(countryCodeToCurrencyCode, pppData[k].countryCode)
         IN  <<[name |-> pppData[k].countryName, code |-> pppData[k].countryCode,
                currencyCode |-> IF currencyCode = "" THEN "USD" ELSE currencyCode]>>
                 \o CollectCountries_Placeholder(pppData, k + 1)

\* the loop over pppData.entries(), from entry k on; the display fields
\* currency and flag of a Country are left out
RECURSIVE CollectCountries(_, _)
CollectCountries(pppData, k) ==
    IF k > Len(pppData) THEN <<>>
    ELSE LET currencyCode == EntryOf(countryCodeToCurrencyCode, pppData[k].countryCode)
         IN  IF currencyCode = "" THEN CollectCountries(pppData, k + 1)
             ELSE <<[name |-> pppData[k].countryName, code |-> pppData[k].countryCode,
                     currencyCode |-> currencyCode]>>
                      \o CollectCountries(pppData, k + 1)

getCountriesFromPPPData(response) ==
    LET pppData == loadPPPData(response)
    IN  IF pppData.threw THEN pppData
        ELSE Normal(SortByName(CollectCountries(pppData.value, 1)))

ApplyCountries(response) ==
    /\ load.op = "none"
    /\ load' = [load EXCEPT !.op = "getCountriesFromPPPData",
                  !.response = Some(response),
                  !.out = Some(getCountriesFromPPPData(response))]
    /\ UNCHANGED <<now, ticks, storage, storageFault, call, conv, parse, rev, ui>>

ApplyLoad(response) ==
    /\ load.op = "none"
    /\ load' = [load EXCEPT !.op = "loadPPPData", !.response = Some(response),
                  !.out = Some(loadPPPData(response))]
    /\ UNCHANGED <<now, ticks, storage, storageFault, call, conv, parse, rev, ui>>

InitLoad ==
    /\ now = LoadTime
    /\ ticks = 0
    /\ storage = Null
    /\ storageFault = "none"
    /\ call = [c \in Calls |-> Idle]
    /\ conv = ConvIdle
    /\ parse = ParseIdle
    /\ load \in [op : {"none"}, text : Texts, response : {Null}, out : {Null}]
    /\ rev = RevIdle
    /\ ui = UiIdle

NextLoad ==
    \/ \E response \in Responses(load.text) : ApplyLoad(response)
    \/ \E response \in Responses(load.text) : ApplyCountries(response)

SpecLoad == InitLoad /\ [][NextLoad]_vars

(***************************************************************************)
(* getCurrencyToCountryCode (utils/currencyMapping), on a primary mapping  *)
(* given by its entries in iteration order.                                *)
(***************************************************************************)
\* mutant: the last country seen for a currency is recorded
RECURSIVE ReverseFrom_LastWins(_, _, _)
ReverseFrom_LastWins(entries, k, reverseMap) ==
    IF k > Len(entries) THEN reverseMap
    ELSE LET countryCode == entries[k][1]
             currencyCode == entries[k][2]
         IN  ReverseFrom_LastWins(entries, k + 1,
                 IF EntryOf(reverseMap, currencyCode) = ""
                 THEN Append(reverseMap, <<currencyCode, countryCode>>)
                 ELSE [j \in 1..Len(reverseMap) |->
                          IF reverseMap[j][1] = currencyCode
                          THEN <<currencyCode, countryCode>> ELSE reverseMap[j]])

\* the loop over Object.entries(countryCodeToCurrencyCode), from entry k on
RECURSIVE ReverseFrom(_, _, _)
ReverseFrom(entries, k, reverseMap) ==
    IF k > Len(entries) THEN reverseMap
    ELSE LET countryCode == entries[k][1]
             currencyCode == entries[k][2]
         IN  IF EntryOf(reverseMap, currencyCode) = ""
             THEN ReverseFrom(entries, k + 1,
                              Append(reverseMap, <<currencyCode, countryCode>>))
             ELSE ReverseFrom(entries, k + 1, reverseMap)

getCurrencyToCountryCode(entries) == ReverseFrom(entries, 1, << <<"EUR", "DEU">> >>)

MapCountries == {"USA", "GBR", "DEU", "FRA"}

\* primary mappings: every country at most once, in any order
PrimaryMappings ==
    {e \in UNION {[1..k -> MapCountries \X Currencies] : k \in 0..MaxEntries} :
        \A i, j \in 1..Len(e) : e[i][1] = e[j][1] => i = j}
        \cup {countryCodeToCurrencyCode}

ApplyReverse ==
    /\ rev.op = "none"
    /\ rev' = [rev EXCEPT !.op = "getCurrencyToCountryCode",
                 !.out = getCurrencyToCountryCode(rev.entries)]
    /\ UNCHANGED <<now, ticks, storage, storageFault, call, conv, parse, load, ui>>

InitMap ==
    /\ now = LoadTime
    /\ ticks = 0
    /\ storage = Null
    /\ storageFault = "none"
    /\ call = [c \in Calls |-> Idle]
    /\ conv = ConvIdle
    /\ parse = ParseIdle
    /\ load = LoadIdle
    /\ rev \in [op : {"none"}, entries : PrimaryMappings, out : {<<>>}]
    /\ ui = UiIdle

NextMap == ApplyReverse

SpecMap == InitMap /\ [][NextMap]_vars

(***************************************************************************)
(* The component PriceConverter: onMounted, the form and convertedPrice.   *)
(***************************************************************************)
\* the static table exchangeRates, on the currencies of countryCodeToCurrencyCode
exchangeRates ==
    [c \in {"USD", "GBP", "EUR", "JPY", "CAD", "AUD"} |->
        CASE c = "USD" -> Num(1)
          [] c = "GBP" -> Norm(<<79, 100>>)
          [] c = "EUR" -> Norm(<<92, 100>>)
          [] c = "JPY" -> Num(149)
          [] c = "CAD" -> Norm(<<136, 100>>)
          [] c = "AUD" -> Norm(<<153, 100>>)]

\* the data rows of the datasets served to the component
UiRows ==
    { <<"United States", Comma, "USA", Comma, "1", Comma, "1">>,
      <<"United States", Comma, "USA", Comma, "1", Comma, "-2">>,
      <<"United Kingdom", Comma, "GBR", Comma, "0.7", Comma, "0.7">>,
      <<"United Kingdom", Comma, "GBR", Comma, "0.7", Comma, "0">>,
      <<"Germany", Comma, "DEU", Comma, "0.8", Comma, "0.7">>,
      <<"France", Comma, "FRA", Comma, "0.7", Comma, "0.8">>,
      <<"Brazil", Comma, "BRA", Comma, "2", Comma, "2.5">> }

\* a header and data rows, or a file without the year column
UiTexts ==
    {<<HeaderFull>> \o rows : rows \in UNION {[1..k -> UiRows] : k \in 0..(MaxLines - 1)}}
        \cup {<<HeaderNoYear, <<"United States", Comma, "USA", Comma, "1">> >>}

\* what the price input can hold: nothing, or a number
Prices == {Null} \cup {Some(Num(n)) : n \in -1..MaxAmt}

\* lines 82-87: a currency gets the factor of its representative country
BuildFactors(currencyToCountry, pppData) ==
    [c \in {currencyToCountry[k][1] : k \in
               {j \in 1..Len(currencyToCountry) : MapHas(pppData, currencyToCountry[j][2])}}
        |-> MapGet(pppData, EntryOf(currencyToCountry, c)).pppFactor]

\* mutant: the load error is not recorded
Mounted_NoError(u, loadedCountries, pppData) ==
    IF loadedCountries.threw \/ pppData.threw
    THEN [u EXCEPT !.isLoading = FALSE]
    ELSE [u EXCEPT !.countries = loadedCountries.value,
                   !.pppFactors = BuildFactors(
                       getCurrencyToCountryCode(countryCodeToCurrencyCode), pppData.value),
                   !.isLoading = FALSE]

\* the component state after onMounted, given the outcomes of the two loads
Mounted(u, loadedCountries, pppData) ==
    IF loadedCountries.threw \/ pppData.threw
    THEN [u EXCEPT !.loadError = Some("Failed to load PPP data"), !.isLoading = FALSE]
    ELSE [u EXCEPT !.countries = loadedCountries.value,
                   !.pppFactors = BuildFactors(
                       getCurrencyToCountryCode(countryCodeToCurrencyCode), pppData.value),
                   !.isLoading = FALSE]

\* countries.value.find((c) => c.code === code)
FindCountry(countries, code) ==
    IF \E k \in 1..Len(countries) : countries[k].code = code
    THEN Some(countries[CHOOSE k \in 1..Len(countries) :
                  /\ countries[k].code = code
                  /\ \A j \in 1..(k - 1) : countries[j].code # code])
    ELSE Null

originCountry(u) == FindCountry(u.countries, u.originCountryCode)

targetCountry(u) == FindCountry(u.countries, u.targetCountryCode)

\* !price.value: null, the empty input and 0 are falsy
NoPrice(u) == u.price = Null \/ u.price[1][1] = 0

\* mutant: only an absent factor suppresses the result
convertedPrice_ZeroFactor(u) ==
    IF NoPrice(u) \/ originCountry(u) = Null \/ targetCountry(u) = Null \/ u.isLoading
    THEN Null
    ELSE LET originCurrency == originCountry(u)[1].currencyCode
             targetCurrency == targetCountry(u)[1].currencyCode
             originPPP == Lookup(u.pppFactors, originCurrency)
             targetPPP == Lookup(u.pppFactors, targetCurrency)
         IN  IF originPPP = Undefined \/ targetPPP = Undefined THEN Null
             ELSE Some([exchange |-> exchangeConverted(u.price[1], originCurrency,
                                                       targetCurrency, exchangeRates),
                        ppp |-> RDiv(RMul(u.price[1], targetPPP), originPPP),
                        currency |-> targetCurrency,
                        originPPP |-> originPPP, targetPPP |-> targetPPP])

\* mutant: the ratio of the factors is inverted
convertedPrice_Inverted(u) ==
    IF NoPrice(u) \/ originCountry(u) = Null \/ targetCountry(u) = Null \/ u.isLoading
    THEN Null
    ELSE LET originCurrency == originCountry(u)[1].currencyCode
             targetCurrency == targetCountry(u)[1].currencyCode
             originPPP == Lookup(u.pppFactors, originCurrency)
             targetPPP == Lookup(u.pppFactors, targetCurrency)
         IN  IF Falsy(originPPP) \/ Falsy(targetPPP) THEN Null
             ELSE Some([exchange |-> exchangeConverted(u.price[1], originCurrency,
                                                       targetCurrency, exchangeRates),
                        ppp |-> RDiv(RMul(u.price[1], originPPP), targetPPP),
                        currency |-> targetCurrency,
                        originPPP |-> originPPP, targetPPP |-> targetPPP])

\* the computed convertedPrice in component state u
convertedPrice(u) ==
    IF NoPrice(u) \/ originCountry(u) = Null \/ targetCountry(u) = Null \/ u.isLoading
    THEN Null
    ELSE LET originCurrency == originCountry(u)[1].currencyCode
             targetCurrency == targetCountry(u)[1].currencyCode
             originPPP == Lookup(u.pppFactors, originCurrency)
             targetPPP == Lookup(u.pppFactors, targetCurrency)
         IN  IF Falsy(originPPP) \/ Falsy(targetPPP) THEN Null
             ELSE Some([exchange |-> exchangeConverted(u.price[1], originCurrency,
                                                       targetCurrency, exchangeRates),
                        ppp |-> RDiv(RMul(u.price[1], targetPPP), originPPP),
                        currency |-> targetCurrency,
                        originPPP |-> originPPP, targetPPP |-> targetPPP])

\* the form is on screen: the load is over and left no error
FormShown == ~ui.isLoading /\ ui.loadError = Null

\* onMounted: both loads fetch the dataset, each with its own response; the
\* two responses are kept in load
Mount(r1, r2) ==
    /\ ui.isLoading
    /\ ui' = Mounted(ui, getCountriesFromPPPData(r1), loadPPPData(r2))
    /\ load' = [load EXCEPT !.op = "onMounted", !.response = <<r1, r2>>]
    /\ UNCHANGED <<now, ticks, storage, storageFault, call, conv, parse, rev>>

\* the price input (v-model.number)
SetPrice(p) ==
    /\ FormShown
    /\ ui' = [ui EXCEPT !.price = p]
    /\ UNCHANGED <<now, ticks, storage, storageFault, call, conv, parse, load, rev>>

\* the origin select offers the countries of the catalog
SelectOrigin(k) ==
    /\ FormShown
    /\ ui' = [ui EXCEPT !.originCountryCode = ui.countries[k].code]
    /\ UNCHANGED <<now, ticks, storage, storageFault, call, conv, parse, load, rev>>

SelectTarget(k) ==
    /\ FormShown
    /\ ui' = [ui EXCEPT !.targetCountryCode = ui.countries[k].code]
    /\ UNCHANGED <<now, ticks, storage, storageFault, call, conv, parse, load, rev>>

swapCountries ==
    /\ FormShown
    /\ ui' = [ui EXCEPT !.originCountryCode = ui.targetCountryCode,
                        !.targetCountryCode = ui.originCountryCode]
    /\ UNCHANGED <<now, ticks, storage, storageFault, call, conv, parse, load, rev>>

InitUI ==
    /\ now = LoadTime
    /\ ticks = 0
    /\ storage = Null
    /\ storageFault = "none"
    /\ call = [c \in Calls |-> Idle]
    /\ conv = ConvIdle
    /\ parse = ParseIdle
    /\ load \in [op : {"none"}, text : UiTexts, response : {Null}, out : {Null}]
    /\ rev = RevIdle
    /\ ui = UiIdle

NextUI ==
    \/ \E r1, r2 \in Responses(load.text) : Mount(r1, r2)
    \/ \E p \in Prices : SetPrice(p)
    \/ \E k \in 1..Len(ui.countries) : SelectOrigin(k)
    \/ \E k \in 1..Len(ui.countries) : SelectTarget(k)
    \/ swapCountries

SpecUI == InitUI /\ [][NextUI]_vars

(***************************************************************************)
(* Properties of fetchExchangeRates (specification Spec).                  *)
(***************************************************************************)
\* the snapshot the storage holds and lets read, if any
CachedSnapshot ==
    IF storageFault # "read" /\ storage # Null /\ storage[1].syntax = "ok"
    THEN Some(storage[1].members)
    ELSE Null

IsSnapshot(s) == DOMAIN s = {"base", "rates", "timestamp", "lastUpdated"}

NetworkErrors == {"network error", "http error"}

\* C1: a call never rejects, and a call that has finished has resolved to a
\* snapshot, whatever the cache held, the network did and the cache write did
C1_NeverRejects ==
    \A c \in Calls :
        /\ call[c].pc # "rejected"
        /\ call[c].pc = "done" =>
              call[c].result # Null /\ IsSnapshot(call[c].result[1])

\* a call resolved although the cache is unreadable and the network failed
C1_Witness ==
    \E c \in Calls :
        /\ call[c].pc = "done" /\ call[c].error \in NetworkErrors
        /\ storageFault = "read" /\ storage # Null

\* C2: a call that finds a cached snapshot younger than CACHE_DURATION
\* resolves at once to exactly that snapshot without a network request; at an
\* age of CACHE_DURATION or more it goes to the network instead
C2_FreshCacheServed ==
    [][\A c \in Calls :
         (call[c].pc = "idle" /\ call'[c].pc # "idle" /\ CachedSnapshot # Null) =>
            IF now - CachedSnapshot[1].timestamp < CACHE_DURATION
            THEN /\ call'[c].pc = "done"
                 /\ call'[c].result = CachedSnapshot
                 /\ ~call'[c].net
            ELSE /\ call'[c].pc = "fetch"
                 /\ call'[c].net
                 /\ call'[c].result = Null]_vars

\* a call served from the cache one millisecond before the window ends
C2_Witness ==
    \E c \in Calls :
        /\ call[c].pc = "done" /\ ~call[c].net
        /\ call[c].result = CachedSnapshot
        /\ now - call[c].result[1].timestamp = CACHE_DURATION - 1

\* C3 as stated: after a successful fetch of a payload with base and rates the
\* cache content equals the returned snapshot
C3_Original ==
    [][\A c \in Calls :
         (/\ call[c].pc = "json" /\ call'[c].pc # "json"
          /\ call'[c].body # Null
          /\ call'[c].body[1].kind = "object"
          /\ call'[c].body[1].base # "" /\ call'[c].body[1].rates # Null) =>
            /\ call'[c].pc = "done"
            /\ storage' # Null
            /\ JSONparse(storage'[1]) = Normal(call'[c].result)]_vars

\* C3 (amended): after a successful fetch the call returns a new snapshot with
\* timestamp the instant of building, lastUpdated the payload's date or today
\* and the payload's rates; the cache then parses to that snapshot if the
\* write went through, and is left as it was if the write threw
C3_FetchedSnapshotCached ==
    [][\A c \in Calls :
         (/\ call[c].pc = "json" /\ call'[c].pc # "json"
          /\ call'[c].body # Null
          /\ call'[c].body[1].kind = "object") =>
            LET data == call'[c].body[1]
                r == call'[c].result
            IN  /\ call'[c].pc = "done" /\ r # Null
                /\ r[1].timestamp = now
                /\ r[1].lastUpdated = IF data.date # "" THEN data.date
                                      ELSE ISODate(now)
                /\ data.rates # Null => r[1].rates = data.rates[1]
                /\ IF storageFault = "write"
                   THEN storage' = storage
                   ELSE storage' # Null /\ JSONparse(storage'[1]) = Normal(r)]_vars

\* a fetched snapshot of a payload without date replaced an older cached one
C3_Witness ==
    \E c \in Calls :
        /\ call[c].pc = "done" /\ call[c].error = "" /\ call[c].net
        /\ call[c].body # Null /\ call[c].body[1].date = ""
        /\ call[c].result = CachedSnapshot
        /\ call[c].result[1].timestamp > LoadTime

\* C4: when fetch rejects or answers with a non-success status and the cache
\* holds a snapshot, the call returns that snapshot, whatever its age
C4_StaleCacheOnFailure ==
    [][\A c \in Calls :
         (/\ call[c].pc = "fetch" /\ call'[c].pc # "fetch"
          /\ call'[c].error \in NetworkErrors
          /\ CachedSnapshot # Null) =>
            call'[c].pc = "done" /\ call'[c].result = CachedSnapshot]_vars

\* a failed call returned a cached snapshot older than the window
C4_Witness ==
    \E c \in Calls :
        /\ call[c].pc = "done" /\ call[c].error \in NetworkErrors
        /\ call[c].result = CachedSnapshot
        /\ now - call[c].result[1].timestamp >= CACHE_DURATION

\* C5: when the fetch fails and the cache yields no snapshot (absent, corrupt
\* or unreadable), the call returns the static table: base USD, lastUpdated
\* "Static fallback rates"
C5_StaticFallback ==
    [][\A c \in Calls :
         (/\ call[c].pc \in {"fetch", "json"} /\ call'[c].pc \notin {"fetch", "json"}
          /\ call'[c].error # ""
          /\ CachedSnapshot = Null) =>
            /\ call'[c].pc = "done"
            /\ call'[c].result = Some(FALLBACK_RATES)
            /\ call'[c].result[1].base = "USD"
            /\ call'[c].result[1].lastUpdated = "Static fallback rates"]_vars

\* a failed call with an empty cache returned the static table
C5_Witness ==
    \E c \in Calls :
        /\ call[c].pc = "done" /\ call[c].error \in NetworkErrors
        /\ storage = Null
        /\ call[c].result = Some(FALLBACK_RATES)

Malformed(data) ==
    data.kind \in {"unparsable", "null"} \/ data.rates = Null \/ data.base = ""

\* C6: a success response whose body is not JSON or lacks rates or base is a
\* fetch failure: the call returns the cached snapshot (the static table if
\* none) and the cache is not overwritten
C6_MalformedIsFailure ==
    [][\A c \in Calls :
         (/\ call[c].pc = "json" /\ call'[c].pc # "json"
          /\ call'[c].body # Null /\ Malformed(call'[c].body[1])) =>
            /\ storage' = storage
            /\ call'[c].result = IF CachedSnapshot # Null THEN CachedSnapshot
                                 ELSE Some(FALLBACK_RATES)]_vars

(***************************************************************************)
(* Properties of the pure conversions (specification SpecConv).            *)
(***************************************************************************)
Converted == conv.op = "convertCurrency"

Rated == conv.op = "getExchangeRate"

Present(c) == c \in DOMAIN conv.rates.rates

NonZero(c) == Present(c) /\ conv.rates.rates[c][1] # 0

Rate(c) == conv.rates.rates[c]

\* C7 as stated: both currencies present in rates
C7_Original ==
    (Converted /\ conv.from # conv.to /\ Present(conv.from) /\ Present(conv.to)) =>
        conv.out = Some(IF conv.from = conv.rates.base
                        THEN RMul(conv.amount, Rate(conv.to))
                        ELSE IF conv.to = conv.rates.base
                        THEN RDiv(conv.amount, Rate(conv.from))
                        ELSE RMul(RDiv(conv.amount, Rate(conv.from)), Rate(conv.to)))

\* C7 (amended): for from # to with both currencies carrying a non-zero rate,
\* convertCurrency returns amount * rates[to] if from is the base,
\* amount / rates[from] if to is the base, else (amount / rates[from]) * rates[to]
C7_ThreeWayConversion ==
    (Converted /\ conv.from # conv.to /\ NonZero(conv.from) /\ NonZero(conv.to)) =>
        conv.out = Some(IF conv.from = conv.rates.base
                        THEN RMul(conv.amount, Rate(conv.to))
                        ELSE IF conv.to = conv.rates.base
                        THEN RDiv(conv.amount, Rate(conv.from))
                        ELSE RMul(RDiv(conv.amount, Rate(conv.from)), Rate(conv.to)))

\* a conversion into the base currency that changed the amount
C7_Witness ==
    /\ Converted /\ conv.to = conv.rates.base /\ conv.from # conv.to
    /\ NonZero(conv.from) /\ NonZero(conv.to)
    /\ conv.out # Some(conv.amount)

\* C8: for from # to with a currency absent from rates, convertCurrency
\* returns the amount unchanged
C8_MissingRateKeepsAmount ==
    (Converted /\ conv.from # conv.to /\ ~(Present(conv.from) /\ Present(conv.to))) =>
        conv.out = Some(conv.amount)

\* a non-zero amount converted to an unknown code
C8_Witness ==
    /\ Converted /\ conv.to = "XXX" /\ NonZero(conv.from)
    /\ conv.out = Some(conv.amount) /\ conv.amount # Num(0)

\* C9: convertCurrency(amount, c, c, snapshot) is amount, for every snapshot
C9_SameCurrencyIdentity ==
    (Converted /\ conv.from = conv.to) => conv.out = Some(conv.amount)

\* base to base in a snapshot whose own rate for the base is not 1
C9_Witness ==
    /\ Converted /\ conv.from = conv.to /\ conv.from = conv.rates.base
    /\ NonZero(conv.from) /\ Rate(conv.from) # Num(1)
    /\ conv.amount # Num(0) /\ conv.out = Some(conv.amount)

\* C10 as stated: 1 for equal currencies or an absent rate, else the branch
C10_Original ==
    Rated =>
        conv.out = Some(IF conv.from = conv.to \/ ~Present(conv.from) \/ ~Present(conv.to)
                        THEN Num(1)
                        ELSE IF conv.from = conv.rates.base THEN Rate(conv.to)
                        ELSE IF conv.to = conv.rates.base
                        THEN RDiv(Num(1), Rate(conv.from))
                        ELSE RDiv(Rate(conv.to), Rate(conv.from)))

\* C10 (amended): getExchangeRate returns 1 when from = to or when either
\* rate is absent or 0; otherwise rates[to] if from is the base,
\* 1 / rates[from] if to is the base, else rates[to] / rates[from]
C10_ExchangeRate ==
    Rated =>
        conv.out = Some(IF conv.from = conv.to \/ ~NonZero(conv.from) \/ ~NonZero(conv.to)
                        THEN Num(1)
                        ELSE IF conv.from = conv.rates.base THEN Rate(conv.to)
                        ELSE IF conv.to = conv.rates.base
                        THEN RDiv(Num(1), Rate(conv.from))
                        ELSE RDiv(Rate(conv.to), Rate(conv.from)))

\* a cross rate between two non-base currencies that is not 1
C10_Witness ==
    /\ Rated /\ conv.from # conv.to
    /\ conv.from # conv.rates.base /\ conv.to # conv.rates.base
    /\ NonZero(conv.from) /\ NonZero(conv.to)
    /\ conv.out # Some(Num(1))

(***************************************************************************)
(* Properties of parseCSVLine (specification SpecCSV).                     *)
(***************************************************************************)
QuotesBefore(line, i) == Cardinality({j \in 1..(i - 1) : line[j] = Quote})

\* the commas that are not inside a quoted stretch
Separators(line) ==
    {i \in 1..Len(line) : line[i] = Comma /\ QuotesBefore(line, i) % 2 = 0}

\* position of the k-th separator; 0 before the first, Len + 1 after the last
SepAt(line, k) ==
    IF k = 0 THEN 0
    ELSE IF k > Cardinality(Separators(line)) THEN Len(line) + 1
    ELSE CHOOSE i \in Separators(line) :
            Cardinality({j \in Separators(line) : j < i}) = k - 1

\* the characters of line[a..b] that are not quotes, as a string
RECURSIVE Unquoted(_, _, _)
Unquoted(line, a, b) ==
    IF a > b THEN ""
    ELSE IF line[a] = Quote THEN Unquoted(line, a + 1, b)
    ELSE line[a] \o Unquoted(line, a + 1, b)

\* C14: parseCSVLine returns one field more than there are commas outside
\* quotes; each field is the text between two such commas without its quote
\* characters; after a quote that is never closed the rest of the line,
\* commas included, belongs to the last field
C14_QuotedFields ==
    parse.op = "parseCSVLine" =>
        LET line == parse.line
            n == Cardinality(Separators(line))
            quotes == {i \in 1..Len(line) : line[i] = Quote}
        IN  /\ Len(parse.out) = n + 1
            /\ \A k \in 1..(n + 1) :
                  parse.out[k] =
                     Unquoted(line, SepAt(line, k - 1) + 1, SepAt(line, k) - 1)
            /\ Cardinality(quotes) % 2 = 1 =>
                  LET p == CHOOSE q \in quotes : \A r \in quotes : r <= q
                      before == {i \in Separators(line) : i < p}
                      s == IF before = {} THEN 0
                           ELSE CHOOSE i \in before : \A j \in before : j <= i
                  IN  /\ Len(parse.out) = Cardinality(before) + 1
                      /\ parse.out[Len(parse.out)] = Unquoted(line, s + 1, Len(line))

\* a comma inside a quoted field whose quote is never closed
C14_Witness ==
    /\ parse.op = "parseCSVLine"
    /\ parse.line = <<Quote, "a", Comma, "b">>
    /\ parse.out = <<"a,b">>

(***************************************************************************)
(* Properties of loadPPPData (specification SpecLoad).                     *)
(***************************************************************************)
Loaded == load.op = "loadPPPData"

\* the lines the loader sees, and the fields of its header
LoadedLines == SplitLines(load.response[1].text)

HasYearColumn ==
    \E k \in 1..Len(parseCSVLine(LoadedLines[1])) :
        parseCSVLine(LoadedLines[1])[k] = "2024"

\* 1-based position of the first 2024 column
YearColumn ==
    CHOOSE k \in 1..Len(parseCSVLine(LoadedLines[1])) :
        /\ parseCSVLine(LoadedLines[1])[k] = "2024"
        /\ \A j \in 1..(k - 1) : parseCSVLine(LoadedLines[1])[j] # "2024"

\* the row reaches the 2024 column, name, code and value are non-empty and
\* the value parses to a number
RowAccepted(line) ==
    LET v == parseCSVLine(line)
    IN  /\ Len(v) >= YearColumn
        /\ v[1] # "" /\ v[2] # "" /\ v[YearColumn] # ""
        /\ parseFloat(v[YearColumn]) # NaN

AcceptedRows == {i \in 2..Len(LoadedLines) : RowAccepted(LoadedLines[i])}

RowCode(i) == parseCSVLine(LoadedLines[i])[2]

C12_AcceptedRowsLoaded ==
    (Loaded /\ load.response[1].status # "rejected"
        /\ Len(LoadedLines) >= 2 /\ HasYearColumn) =>
        /\ ~load.out[1].threw
        /\ \A i \in 2..Len(LoadedLines) :
              RowAccepted(LoadedLines[i]) => MapHas(load.out[1].value, RowCode(i))
        /\ \A k \in 1..Len(load.out[1].value) :
              \E i \in AcceptedRows : RowCode(i) = load.out[1].value[k].countryCode

\* a text with an accepted row and a row whose value is not a number
C12_Witness ==
    /\ Loaded /\ ~load.out[1].threw
    /\ Len(load.out[1].value) = 1
    /\ \E i \in 2..Len(LoadedLines) :
          /\ ~RowAccepted(LoadedLines[i])
          /\ Len(parseCSVLine(LoadedLines[i])) >= YearColumn
          /\ parseCSVLine(LoadedLines[i])[YearColumn] = "n/a"

\* C13: the record stored for a code is the one of the last accepted row with
\* that code, name and factor; a later rejected row with the code changes nothing
C13_LastRowWins ==
    (Loaded /\ ~load.out[1].threw) =>
        \A k \in 1..Len(load.out[1].value) :
            LET rec == load.out[1].value[k]
                rows == {i \in AcceptedRows : RowCode(i) = rec.countryCode}
                last == CHOOSE i \in rows : \A j \in rows : j <= i
                v == parseCSVLine(LoadedLines[last])
            IN  /\ rec.countryName = v[1]
                /\ rec.pppFactor = parseFloat(v[YearColumn])
                /\ \A j \in 1..Len(load.out[1].value) :
                      load.out[1].value[j].countryCode = rec.countryCode => j = k

\* two accepted rows for FRA with different names: the later one is stored
C13_Witness ==
    /\ Loaded /\ ~load.out[1].threw
    /\ Cardinality({i \in AcceptedRows : RowCode(i) = "FRA"}) = 2
    /\ \E k \in 1..Len(load.out[1].value) :
          /\ load.out[1].value[k].countryCode = "FRA"
          /\ load.out[1].value[k].countryName = "France, Republic of"

(***************************************************************************)
(* Properties of getCountriesFromPPPData (specification SpecLoad).         *)
(***************************************************************************)
Listed == load.op = "getCountriesFromPPPData" /\ ~load.out[1].threw

Catalog == load.out[1].value

\* the mapping loadPPPData gives on the response the catalog was built from
LoadedMapping == loadPPPData(load.response[1]).value

InTable(code) ==
    \E k \in 1..Len(countryCodeToCurrencyCode) : countryCodeToCurrencyCode[k][1] = code

\* C15: a code is in the catalog if and only if it is in the loaded mapping and
\* in the country-to-currency table, once; each entry carries the table's
\* currency code, which is not empty
C15_CatalogJoin ==
    Listed =>
        /\ \A k \in 1..Len(LoadedMapping) :
              InTable(LoadedMapping[k].countryCode) =>
                  \E j \in 1..Len(Catalog) : Catalog[j].code = LoadedMapping[k].countryCode
        /\ \A j \in 1..Len(Catalog) :
              /\ MapHas(LoadedMapping, Catalog[j].code)
              /\ InTable(Catalog[j].code)
              /\ Catalog[j].currencyCode # ""
              /\ \E k \in 1..Len(countryCodeToCurrencyCode) :
                    countryCodeToCurrencyCode[k] = <<Catalog[j].code, Catalog[j].currencyCode>>
              /\ \A i \in 1..Len(Catalog) : Catalog[i].code = Catalog[j].code => i = j

\* the dataset has Brazil, which has no currency entry, and a listed country
C15_Witness ==
    /\ Listed
    /\ MapHas(LoadedMapping, "BRA")
    /\ Len(LoadedMapping) = 2
    /\ Len(Catalog) = 1

\* C16: adjacent entries of the catalog are in ascending order of name under
\* localeCompare
C16_CatalogSorted ==
    Listed =>
        \A j \in 1..(Len(Catalog) - 1) :
            localeCompare(Catalog[j].name, Catalog[j + 1].name) <= 0

\* the dataset lists Germany before France, the catalog France before Germany
C16_Witness ==
    /\ Listed
    /\ Len(LoadedMapping) = 2
    /\ LoadedMapping[1].countryCode = "DEU" /\ LoadedMapping[2].countryCode = "FRA"
    /\ Len(Catalog) = 2
    /\ Catalog[1].code = "FRA" /\ Catalog[2].code = "DEU"

(***************************************************************************)
(* Properties of getCurrencyToCountryCode (specification SpecMap).         *)
(***************************************************************************)
Reversed == rev.op = "getCurrencyToCountryCode"

Carriers(currencyCode) ==
    {k \in 1..Len(rev.entries) : rev.entries[k][2] = currencyCode}

\* the value the returned object has under a key, "" when it has none
RevAt(currencyCode) ==
    LET hits == {j \in 1..Len(rev.out) : rev.out[j][1] = currencyCode}
    IN  IF hits = {} THEN "" ELSE rev.out[CHOOSE j \in hits : TRUE][2]

\* C17: EUR maps to DEU whatever the primary mapping and its order; any other
\* currency maps to the first country carrying it, and to nothing if none does
C17_ReverseMapping ==
    Reversed =>
        /\ RevAt("EUR") = "DEU"
        /\ \A j, i \in 1..Len(rev.out) : rev.out[j][1] = rev.out[i][1] => i = j
        /\ \A j \in 1..Len(rev.out) :
              rev.out[j][1] # "EUR" => Carriers(rev.out[j][1]) # {}
        /\ \A k \in 1..Len(rev.entries) :
              rev.entries[k][2] # "EUR" =>
                  LET first == CHOOSE i \in Carriers(rev.entries[k][2]) :
                                   \A j \in Carriers(rev.entries[k][2]) : i <= j
                  IN  RevAt(rev.entries[k][2]) = rev.entries[first][1]

\* France is the first (and only) EUR country, two countries carry USD
C17_Witness ==
    /\ Reversed
    /\ rev.entries = << <<"FRA", "EUR">>, <<"GBR", "USD">>, <<"USA", "USD">> >>
    /\ RevAt("EUR") = "DEU"
    /\ RevAt("USD") = "GBR"

(***************************************************************************)
(* Properties of the component (specification SpecUI).                     *)
(***************************************************************************)
\* amount and both countries are there and the load is over
EngineInputsValid ==
    /\ ~ui.isLoading
    /\ ~NoPrice(ui)
    /\ originCountry(ui) # Null
    /\ targetCountry(ui) # Null

\* the factor the engine reads for a side: that of the side's currency
SideFactor(country) == Lookup(ui.pppFactors, country[1].currencyCode)

\* the factor the served dataset records for a country code
DatasetFactor(code) ==
    LET pppData == loadPPPData([status |-> "200", text |-> load.text]).value
    IN  IF MapHas(pppData, code) THEN MapGet(pppData, code).pppFactor ELSE Undefined

\* C18: with a valid amount and both countries, convertedPrice is null when the
\* factor of the origin side or of the target side is absent or 0
C18_MissingFactorNoResult ==
    EngineInputsValid =>
        ((\/ SideFactor(originCountry(ui)) = Undefined
          \/ SideFactor(originCountry(ui)) = Num(0)
          \/ SideFactor(targetCountry(ui)) = Undefined
          \/ SideFactor(targetCountry(ui)) = Num(0)) => convertedPrice(ui) = Null)

\* price 1 from USA (factor 1) to GBR, whose factor is 0: no result
C18_Witness ==
    /\ EngineInputsValid
    /\ SideFactor(originCountry(ui)) = Num(1)
    /\ SideFactor(targetCountry(ui)) = Num(0)
    /\ convertedPrice(ui) = Null

\* C19: the factors the engine uses for the selected countries are the ones the
\* dataset records for these countries themselves
C19_CountryKeyedFactors ==
    EngineInputsValid =>
        /\ SideFactor(originCountry(ui)) = DatasetFactor(ui.originCountryCode)
        /\ SideFactor(targetCountry(ui)) = DatasetFactor(ui.targetCountryCode)

\* C20: an outcome's ppp is price * targetPPP / originPPP for the factors the
\* outcome reports, exactly
C20_PPPAmount ==
    convertedPrice(ui) # Null =>
        LET out == convertedPrice(ui)[1]
        IN  out.ppp = RDiv(RMul(ui.price[1], out.targetPPP), out.originPPP)

\* price 2 from USA (1) to GBR (0.7): 7/5
C20_Witness ==
    /\ convertedPrice(ui) # Null
    /\ ui.price = Some(Num(2))
    /\ convertedPrice(ui)[1].originPPP = Num(1)
    /\ convertedPrice(ui)[1].targetPPP = Norm(<<7, 10>>)
    /\ convertedPrice(ui)[1].ppp = Norm(<<7, 5>>)

(***************************************************************************)
(* The engine's exchange amount against getExchangeRate (SpecConv).        *)
(***************************************************************************)
\* a table as the component's: rates relative to USD, USD itself at 1
UsdTable == conv.rates.base = "USD" /\ Lookup(conv.rates.rates, "USD") = Num(1)

C22_NullOnlyWhenUnavailable ==
    (/\ ~ui.isLoading
     /\ ui.price # Null
     /\ originCountry(ui) # Null /\ targetCountry(ui) # Null
     /\ ~Falsy(SideFactor(originCountry(ui)))
     /\ ~Falsy(SideFactor(targetCountry(ui)))) => convertedPrice(ui) # Null

\* C23: the two amounts of an outcome are not negative
C23_NonNegativeAmounts ==
    convertedPrice(ui) # Null =>
        /\ convertedPrice(ui)[1].exchange[1] >= 0
        /\ convertedPrice(ui)[1].ppp[1] >= 0

\* l is the value of load after a mount in which either load failed
MountFailedIn(l) ==
    /\ l.op = "onMounted"
    /\ \/ getCountriesFromPPPData(l.response[1]).threw
       \/ loadPPPData(l.response[2]).threw

\* u is a component state showing the load error
LoadErrorStateIn(u) ==
    /\ u.loadError # Null
    /\ ~u.isLoading
    /\ u.countries = <<>>
    /\ u.pppFactors = EmptyRates
    /\ convertedPrice(u) = Null

\* C25: a step that ends a mount in which either load failed leaves the
\* component in the load-error state, and nothing changes the component or
\* loads again once loadError is set
C25_LoadErrorState ==
    [][/\ MountFailedIn(load') => LoadErrorStateIn(ui')
       /\ ui.loadError # Null => (ui' = ui /\ load' = load)]_vars

\* the catalog load got the file, the factor load a not-found response
C25_Witness ==
    /\ MountFailedIn(load)
    /\ ~getCountriesFromPPPData(load.response[1]).threw
    /\ load.response[2].status = "404"
    /\ LoadErrorStateIn(ui)

(***************************************************************************)
(* Further properties of loadPPPData (specification SpecLoad).             *)
(***************************************************************************)
\* C24: every record of the loaded mapping has a factor above 0, its key as
\* countryCode (once) and year 2024
C24_PositiveFactors ==
    (Loaded /\ ~load.out[1].threw) =>
        \A k \in 1..Len(load.out[1].value) :
            /\ load.out[1].value[k].pppFactor # NaN
            /\ load.out[1].value[k].pppFactor[1] > 0
            /\ load.out[1].value[k].year = 2024
            /\ \A j \in 1..Len(load.out[1].value) :
                  load.out[1].value[j].countryCode = load.out[1].value[k].countryCode
                      => j = k

(***************************************************************************)
(* Further properties of fetchExchangeRates (specification Spec).          *)
(***************************************************************************)
FreshLog == "Fetched fresh exchange rates from API"

\* C26: whatever the interleaving of the calls, a step that changes the cache
\* is the cache write of one call whose fetch succeeded, and the cache then
\* holds the whole snapshot this call returns; the last writer wins
C26_LastWriterWins ==
    [][storage' # storage =>
         \E c \in Calls :
            /\ call[c].pc = "json" /\ call'[c].pc = "done"
            /\ call'[c].log = FreshLog
            /\ call'[c].result # Null /\ IsSnapshot(call'[c].result[1])
            /\ storage' = Some(JSONstringify(call'[c].result[1]))
            /\ \A d \in Calls \ {c} : call'[d] = call[d]]_vars

\* a call is still waiting for its response while another call, started
\* before the cache was fresh, has just written its snapshot
C26_Witness ==
    \E c, d \in Calls :
        /\ c # d /\ storageFault = "none"
        /\ call[c].pc = "json"
        /\ call[d].pc = "done" /\ call[d].log = FreshLog
        /\ storage = Some(JSONstringify(call[d].result[1]))
        /\ call[d].result[1].timestamp = now
        /\ now > LoadTime

\* C27: a call that returns the fresh cache, the stale cache or the static
\* table, and a call that goes to the network, leave the cache as it is
C27_CacheWrittenOnFetchOnly ==
    [][\A c \in Calls :
         (/\ call'[c] # call[c]
          /\ call'[c].pc \in {"fetch", "json", "done"}
          /\ call'[c].log # FreshLog) => storage' = storage]_vars

\* a call returned the stale cache after a failure and the cache still holds
\* the snapshot of the earlier session, timestamp included
C27_Witness ==
    \E c \in Calls :
        /\ call[c].pc = "done"
        /\ call[c].log = "Using expired cached rates due to API failure"
        /\ storage = Stored(LoadTime - CACHE_DURATION)
        /\ now > LoadTime

\* C28: while the cache works and holds the snapshot a call fetched at t, a
\* call started before t + CACHE_DURATION returns this snapshot without a
\* request, and a call started at t + CACHE_DURATION or later goes to the network
C28_FreshnessWindow ==
    [][\A c, d \in Calls :
         (/\ c # d /\ storageFault = "none"
          /\ call[d].pc = "done" /\ call[d].log = FreshLog
          /\ storage = Some(JSONstringify(call[d].result[1]))
          /\ call[c].pc = "idle" /\ call'[c].pc # "idle") =>
            IF now < call[d].result[1].timestamp + CACHE_DURATION
            THEN /\ call'[c].pc = "done"
                 /\ call'[c].result = call[d].result
                 /\ ~call'[c].net
                 /\ storage' = storage
            ELSE /\ call'[c].pc = "fetch"
                 /\ call'[c].net]_vars

\* a call was served, without a request, the snapshot another call fetched;
\* the next call comes exactly one hour after that fetch
C28_Witness ==
    \E c, d \in Calls :
        /\ c # d /\ storageFault = "none"
        /\ call[d].pc = "done" /\ call[d].log = FreshLog
        /\ storage = Some(JSONstringify(call[d].result[1]))
        /\ call[c].pc = "done" /\ ~call[c].net
        /\ call[c].result = call[d].result
        /\ now = call[d].result[1].timestamp + CACHE_DURATION

(***************************************************************************)
(* Further properties of the pure conversions (specification SpecConv).    *)
(***************************************************************************)
\* C29: convertCurrency(amount, from, to, rates) is amount times
\* getExchangeRate(from, to, rates), exactly, on every branch
C29_ConvertIsAmountTimesRate ==
    conv.op = "convertCurrency" =>
        conv.out[1] = RMul(conv.amount, getExchangeRate(conv.from, conv.to, conv.rates))

\* a conversion towards the base at a rate of 2
C29_Witness ==
    /\ conv.op = "convertCurrency"
    /\ conv.to = conv.rates.base /\ conv.from # conv.to
    /\ Lookup(conv.rates.rates, conv.from) = Num(2)
    /\ Lookup(conv.rates.rates, conv.to) = Num(1)
    /\ conv.amount = Num(1)
    /\ conv.out = Some(Norm(<<1, 2>>))

\* C30: when the table has no rate, or the rate 0, for the base, a conversion
\* from or to the base returns the amount and the multiplier 1; no result of
\* either function has a zero denominator
C30_BaseWithoutRate ==
    /\ (/\ conv.op \in {"convertCurrency", "getExchangeRate"}
        /\ Falsy(Lookup(conv.rates.rates, conv.rates.base))
        /\ conv.rates.base \in {conv.from, conv.to}) =>
            conv.out[1] = IF conv.op = "convertCurrency" THEN conv.amount ELSE Num(1)
    /\ conv.op \in {"convertCurrency", "getExchangeRate"} => conv.out[1][2] # 0

\* from the base, whose rate is 0, to a currency at rate 2: amount unchanged
C30_Witness ==
    /\ conv.op = "convertCurrency"
    /\ conv.from = conv.rates.base /\ conv.to # conv.from
    /\ Lookup(conv.rates.rates, conv.from) = Num(0)
    /\ Lookup(conv.rates.rates, conv.to) = Num(2)
    /\ conv.amount = Num(2)
    /\ conv.out = Some(Num(2))

====
